---- MODULE Spec2Model ----
(***************************************************************************)
(* Process lifecycle and log-streaming controller of the SRT macro         *)
(* (src/api_server.py: class MacroState, run_macro; src/main_linux.py:     *)
(* log_error, main).                                                       *)
(*                                                                         *)
(* Representation of Python values:                                        *)
(*   - a str is a sequence of lines (what str.split('\n') returns), each   *)
(*     line a sequence of tokens; the token SP is one whitespace           *)
(*     character, TB is the word  Traceback , FQ is the text  File "  and  *)
(*     every other token is ordinary text.  The empty str is <<<<>>>>.     *)
(*   - None is NoneStr / NoProc / NoQ / NoTime / NoParams / "None",        *)
(*     according to the type of the field.                                 *)
(*   - a multiprocessing.Process is the index 1..MaxRuns of the spawn      *)
(*     that created it; its two mp.Queue objects carry the same index.     *)
(***************************************************************************)
EXTENDS Naturals, Sequences, FiniteSets

\* ----- bounds of the model ------------------------------------------------
MaxRuns == 2            \* worker processes spawned in one behaviour
MaxPendingStatus == 1   \* a recoverable error is put only below this queue length
MaxLogLines == 1002     \* log lines one worker writes
MaxLag == 1             \* lines on their way (logs queue, pending callbacks) in a paced run
MaxSubscribers == 2     \* subscribe() calls in one behaviour
MaxEarlyLines == 1      \* clients subscribe and read only up to this many appended lines
MaxShortLines == 2      \* log lines of the worker of a short run
MaxMsgLines == 3        \* lines of a raw error message
MaxReportedLines == 2   \* lines of the message of a worker that reports any raw message
MaxUiLines == 1         \* lines of the page handler in the log buffer
MaxPumpLines == 1       \* log lines a worker writes in the runs that exercise the pump thread

\* ----- absent values --------------------------------------------------------
NoProc == 0
NoQ == 0
NoTime == 0
NoParams == "None"
NoneStr == <<>>
EmptyStr == << <<>> >>

\* ----- text -------------------------------------------------------------------
SP == " "
TB == "Traceback"
FQ == "File \""

RECURSIVE LStrip(_)
\* str.lstrip() of one line
LStrip(l) == IF l /= <<>> /\ Head(l) = SP THEN LStrip(Tail(l)) ELSE l

RECURSIVE RStrip(_)
\* str.rstrip() of one line
RStrip(l) == IF l /= <<>> /\ l[Len(l)] = SP THEN RStrip(SubSeq(l, 1, Len(l) - 1)) ELSE l

\* str.strip() of one line
Strip(l) == RStrip(LStrip(l))

\* IsMarkerLine that looks at the line as it is, without strip()
IsMarkerLineNoStrip(l) == l /= <<>> /\ Head(l) \in {TB, FQ}

\* line.strip().startswith('Traceback') or line.strip().startswith('File "')
IsMarkerLine(l) == Strip(l) /= <<>> /\ Head(Strip(l)) \in {TB, FQ}

RECURSIVE BeforeMarker(_)
\* the for loop of _clean_error_message: the lines before the first marker line
BeforeMarker(lines) ==
    IF lines = <<>> \/ IsMarkerLine(Head(lines)) THEN <<>>
    ELSE <<Head(lines)>> \o BeforeMarker(Tail(lines))

RECURSIVE PopBlankTail(_)
\* while cleaned_lines and not cleaned_lines[-1].strip(): cleaned_lines.pop()
PopBlankTail(lines) ==
    IF lines /= <<>> /\ Strip(lines[Len(lines)]) = <<>>
    THEN PopBlankTail(SubSeq(lines, 1, Len(lines) - 1))
    ELSE lines

RECURSIVE DropBlankHead(_)
\* the leading blank lines that the final str.strip() removes
DropBlankHead(lines) ==
    IF lines /= <<>> /\ Strip(Head(lines)) = <<>> THEN DropBlankHead(Tail(lines)) ELSE lines

\* '\n'.join(cleaned_lines).strip(): an empty result is the empty str
JoinStrip(lines) ==
    LET body == DropBlankHead(PopBlankTail(lines)) IN
    IF body = <<>> THEN EmptyStr
    ELSE IF Len(body) = 1 THEN <<Strip(body[1])>>
    ELSE <<LStrip(body[1])>> \o SubSeq(body, 2, Len(body) - 1) \o <<RStrip(body[Len(body)])>>

FallbackError == << <<"an error occurred during execution.">> >>
DefaultStartError == << <<"unknown error while starting">> >>
DefaultRunError == << <<"error during execution">> >>
FinishedImmediately == << <<"the job finished immediately. check the conditions.">> >>

\* CleanErrorMessage that returns what is left even when nothing is left
CleanErrorMessageNoFallback(error_msg) == JoinStrip(PopBlankTail(BeforeMarker(error_msg)))

\* MacroState._clean_error_message
CleanErrorMessage(error_msg) ==
    LET result == JoinStrip(PopBlankTail(BeforeMarker(error_msg))) IN
    IF result /= EmptyStr THEN result ELSE FallbackError

\* f"... exitcode={exitcode}"
ExitedMessage(exitcode) == << <<"the process exited immediately. exitcode=", exitcode>> >>

\* msg.get(key)
Get(msg, key) == IF key \in DOMAIN msg THEN msg[key] ELSE NoneStr

\* x or default, for a str or None
OrDefault(x, default) == IF x = NoneStr \/ x = EmptyStr THEN default ELSE x

\* ----- status messages the worker sends ----------------------------------------
ErrorMsg(m) == [status |-> "error", message |-> m]
FinishedMsg == [status |-> "finished"]

Boom == << <<"Boom">> >>
BoomTraceback == << <<"Boom">>, <<TB, "...">>, <<FQ, "...">> >>

\* the texts a worker reports in this model
ErrorMessages == {BoomTraceback, EmptyStr}

\* the parameter records of a start() call
Params == {"A-B", "B-A"}

\* ----- state ---------------------------------------------------------------------
VARIABLES
    proc,            \* MacroState.proc: the handle, NoProc or a process
    started_at,      \* MacroState.started_at
    last_error,      \* MacroState.last_error
    status_q,        \* MacroState._status_q: NoQ or the queue of a process
    logs_q,          \* MacroState._logs_q
    current_params,  \* MacroState.current_params
    log_thread,      \* MacroState._log_thread: position of the pump thread
    pump_q,          \* the local q of _start_log_pump._worker
    log_buffer,      \* MacroState._log_buffer
    nspawned,        \* processes created so far (also the clock of time.time())
    alive,           \* per process: Process.is_alive()
    exitcode,        \* per process: Process.exitcode
    sigterm,         \* per process: a terminate() signal was sent
    wpc,             \* per process: position of run_macro / main_linux.main
    werr,            \* per process: the message of the exception being raised
    nlogs,           \* per process: log lines written
    statusChan,      \* per process: content of its status mp.Queue
    logChan,         \* per process: content of its logs mp.Queue
    pc,              \* position of the request-serving context
    start_q,         \* the local status_q of a start() in its bounded wait
    last,            \* the controller call that returned last: its result, the status
                     \* messages it took and what is_alive() of its handle was
    listeners,       \* MacroState._listeners: the registered subscriber queues, in order
    sub_q,           \* per subscriber: content of its asyncio.Queue
    loop_calls,      \* the callbacks call_soon_threadsafe left with the event loop
    nsubscribed,     \* subscribe() calls so far
    nappended,       \* _append_log calls so far
    error_msg,       \* the argument of a call of _clean_error_message
    cleaned,         \* what that call returned, None before it returns
    response,        \* the running and pid entries of the response status() builds
    raised,          \* the exception that left a controller call, NoError for none
    pc2              \* position of a second request thread, in start()

vars == <<proc, started_at, last_error, status_q, logs_q, current_params, log_thread,
          pump_q, log_buffer, nspawned, alive, exitcode, sigterm, wpc, werr, nlogs,
          statusChan, logChan, pc, start_q, last, listeners, sub_q, loop_calls,
          nsubscribed, nappended, error_msg, cleaned, response, raised, pc2>>

ctlVars == <<proc, started_at, last_error, status_q, logs_q, current_params>>
osVars == <<alive, exitcode, sigterm>>
workerVars == <<wpc, werr, nlogs>>
pumpVars == <<log_thread, pump_q, log_buffer>>
logVars == <<listeners, sub_q, loop_calls, nsubscribed, nappended>>
cleanVars == <<error_msg, cleaned>>
reqVars == <<response, raised, pc2>>

\* no exception
NoError == "None"

\* the response of status() before its entries are evaluated
NoResponse == [running |-> FALSE, pid |-> NoProc]

Procs == 1..MaxRuns
Subscribers == 1..MaxSubscribers

\* the fields of MacroState that make up the run state, as one record
Self == [proc |-> proc, started_at |-> started_at, last_error |-> last_error,
         status_q |-> status_q, logs_q |-> logs_q, current_params |-> current_params]

SetSelf(c) ==
    /\ proc' = c.proc
    /\ started_at' = c.started_at
    /\ last_error' = c.last_error
    /\ status_q' = c.status_q
    /\ logs_q' = c.logs_q
    /\ current_params' = c.current_params

\* MacroState.__init__, and no process yet
InitRun ==
    /\ proc = NoProc
    /\ started_at = NoTime
    /\ last_error = NoneStr
    /\ status_q = NoQ
    /\ logs_q = NoQ
    /\ current_params = NoParams
    /\ log_thread = "dead"
    /\ pump_q = NoQ
    /\ log_buffer = <<>>
    /\ nspawned = 0
    /\ alive = [p \in Procs |-> FALSE]
    /\ exitcode = [p \in Procs |-> "None"]
    /\ sigterm = [p \in Procs |-> FALSE]
    /\ wpc = [p \in Procs |-> "unborn"]
    /\ werr = [p \in Procs |-> NoneStr]
    /\ nlogs = [p \in Procs |-> 0]
    /\ statusChan = [p \in Procs |-> <<>>]
    /\ logChan = [p \in Procs |-> <<>>]
    /\ pc = "idle"
    /\ start_q = NoQ
    /\ last = [op |-> "init", ret |-> FALSE, got |-> {}, live |-> FALSE]
    /\ listeners = <<>>
    /\ sub_q = [s \in Subscribers |-> <<>>]
    /\ loop_calls = <<>>
    /\ nsubscribed = 0
    /\ nappended = 0
    /\ response = NoResponse
    /\ raised = NoError
    /\ pc2 = "idle"

Init == InitRun /\ error_msg = NoneStr /\ cleaned = NoneStr

\* ----- the controller's code, on the record of its fields -----------------------

\* ClearRun that forgets to reset started_at and current_params
ClearRunHandleOnly(c) ==
    [c EXCEPT !.proc = NoProc, !.status_q = NoQ, !.logs_q = NoQ]

\* self.proc = None; self.started_at = None; self._status_q = None;
\* self._logs_q = None; self.current_params = None
ClearRun(c) ==
    [c EXCEPT !.proc = NoProc, !.started_at = NoTime, !.status_q = NoQ,
              !.logs_q = NoQ, !.current_params = NoParams]

\* the same without current_params (the timeout path of start())
ClearRunKeepParams(c) ==
    [c EXCEPT !.proc = NoProc, !.started_at = NoTime, !.status_q = NoQ, !.logs_q = NoQ]

\* one message of the get_nowait() loop of running and of refresh() on a dead
\* process: last_error after it, from le
DrainMessage(le, msg) ==
    IF Get(msg, "status") = "error"
    THEN CleanErrorMessage(OrDefault(Get(msg, "message"), DefaultRunError))
    ELSE le

RECURSIVE DrainErrors(_, _)
\* that loop over the queued messages msgs
DrainErrors(le, msgs) ==
    IF msgs = <<>> THEN le ELSE DrainErrors(DrainMessage(le, Head(msgs)), Tail(msgs))

\* the content of the queue q, none for no queue
Content(chan, q) == IF q = NoQ THEN <<>> ELSE chan[q]

\* RunningProp that clears a dead run without looking at its status queue
RunningPropNoDrain(c, al, chan) ==
    IF c.proc = NoProc THEN [ret |-> FALSE, c |-> c, drained |-> NoQ]
    ELSE IF ~al[c.proc] THEN [ret |-> FALSE, c |-> ClearRun(c), drained |-> c.status_q]
    ELSE [ret |-> TRUE, c |-> c, drained |-> NoQ]

\* the property MacroState.running evaluated on the fields c:
\* ret is its answer, c the fields afterwards, drained the queue it emptied
RunningProp(c, al, chan) ==
    IF c.proc = NoProc THEN [ret |-> FALSE, c |-> c, drained |-> NoQ]
    ELSE IF ~al[c.proc]
    THEN [ret |-> FALSE,
          c |-> ClearRun([c EXCEPT !.last_error = DrainErrors(c.last_error, Content(chan, c.status_q))]),
          drained |-> c.status_q]
    ELSE [ret |-> TRUE, c |-> c, drained |-> NoQ]

\* the queue q emptied
Emptied(chan, q) == IF q = NoQ THEN chan ELSE [chan EXCEPT ![q] = <<>>]

\* the queues after the controller dropped references: a queue object that neither
\* self._status_q (sq) nor the local of a waiting start() (lq) refers to is
\* garbage, and what the worker still puts on it is never read
Held(chan, sq, lq) == [p \in Procs |-> IF p \in {sq, lq} THEN chan[p] ELSE <<>>]

\* proc.terminate() and proc.join(timeout) on process p: the signal is sent and
\* the process has exited when join returns (dies) or the join timed out
Terminated(os, p, dies) ==
    [alive |-> IF dies THEN [os.alive EXCEPT ![p] = FALSE] ELSE os.alive,
     exitcode |-> IF dies THEN [os.exitcode EXCEPT ![p] = "-15"] ELSE os.exitcode,
     sigterm |-> [os.sigterm EXCEPT ![p] = TRUE]]

OS == [alive |-> alive, exitcode |-> exitcode, sigterm |-> sigterm]

\* if self.proc and self.proc.is_alive(): terminate, join
EnsureTerminated(c, os, dies) ==
    IF c.proc /= NoProc /\ os.alive[c.proc] THEN Terminated(os, c.proc, dies) ELSE os

\* ----- the worker process (run_macro, main_linux.main, log_error) ----------------

Put(chan, q, x) == [chan EXCEPT ![q] = Append(@, x)]

\* status_q.put(x) in process p
PutStatus(p, x) == Held(Put(statusChan, p, x), status_q, start_q)

\* the process leaves run_macro before its try block, or is killed from outside:
\* it exits with a nonzero code and has reported nothing since
WorkerCrash(p) ==
    /\ alive[p] /\ wpc[p] \in {"boot", "main"}
    /\ alive' = [alive EXCEPT ![p] = FALSE]
    /\ exitcode' = [exitcode EXCEPT ![p] = "1"]
    /\ wpc' = [wpc EXCEPT ![p] = "exited"]
    /\ UNCHANGED <<ctlVars, pumpVars, logVars, nspawned, sigterm, werr, nlogs, statusChan, logChan,
                   pc, start_q, last, cleanVars, reqVars>>

\* run_macro reaches main_linux.main
WorkerEnterMain(p) ==
    /\ alive[p] /\ wpc[p] = "boot"
    /\ wpc' = [wpc EXCEPT ![p] = "main"]
    /\ UNCHANGED <<ctlVars, pumpVars, logVars, nspawned, osVars, werr, nlogs, statusChan, logChan,
                   pc, start_q, last, cleanVars, reqVars>>

\* a line printed by the worker: _StreamToQueue.write, logs_q.put
WorkerLog(p) ==
    /\ alive[p] /\ wpc[p] \in {"boot", "main"} /\ nlogs[p] < MaxLogLines
    /\ nlogs' = [nlogs EXCEPT ![p] = @ + 1]
    /\ logChan' = Put(logChan, p, <<p, nlogs[p] + 1>>)
    /\ UNCHANGED <<ctlVars, pumpVars, logVars, nspawned, osVars, wpc, werr, statusChan, pc, start_q, last, cleanVars, reqVars>>

\* log_error(message) with exit_on_error=False: the error is reported and main goes on
WorkerRecoverableError(p, m) ==
    /\ alive[p] /\ wpc[p] = "main" /\ Len(statusChan[p]) < MaxPendingStatus
    /\ statusChan' = PutStatus(p, ErrorMsg(m))
    /\ UNCHANGED <<ctlVars, pumpVars, logVars, nspawned, osVars, workerVars, logChan, pc, start_q, last, cleanVars, reqVars>>

\* log_error(message, exit_on_error=True), or the except Exception block of main:
\* put "error" ...
WorkerFatalError(p, m) ==
    /\ alive[p] /\ wpc[p] = "main"
    /\ statusChan' = PutStatus(p, ErrorMsg(m))
    /\ werr' = [werr EXCEPT ![p] = m]
    /\ wpc' = [wpc EXCEPT ![p] = "fatal_finished"]
    /\ UNCHANGED <<ctlVars, pumpVars, logVars, nspawned, osVars, nlogs, logChan, pc, start_q, last, cleanVars, reqVars>>

\* ... then put "finished" and raise
WorkerFatalFinished(p) ==
    /\ alive[p] /\ wpc[p] = "fatal_finished"
    /\ statusChan' = PutStatus(p, FinishedMsg)
    /\ wpc' = [wpc EXCEPT ![p] = "raised"]
    /\ UNCHANGED <<ctlVars, pumpVars, logVars, nspawned, osVars, werr, nlogs, logChan, pc, start_q, last, cleanVars, reqVars>>

\* WorkerRaisedError that reports nothing for the exception
WorkerRaisedErrorOmitted(p) ==
    /\ alive[p] /\ wpc[p] = "raised"
    /\ wpc' = [wpc EXCEPT ![p] = "raised_finished"]
    /\ UNCHANGED <<ctlVars, pumpVars, logVars, nspawned, osVars, werr, nlogs, statusChan, logChan, pc, start_q, last, cleanVars, reqVars>>

\* the except block of run_macro: put "error" with str(e) ...
WorkerRaisedError(p) ==
    /\ alive[p] /\ wpc[p] = "raised"
    /\ statusChan' = PutStatus(p, ErrorMsg(werr[p]))
    /\ wpc' = [wpc EXCEPT ![p] = "raised_finished"]
    /\ UNCHANGED <<ctlVars, pumpVars, logVars, nspawned, osVars, werr, nlogs, logChan, pc, start_q, last, cleanVars, reqVars>>

\* ... then put "finished" and return
WorkerRaisedFinished(p) ==
    /\ alive[p] /\ wpc[p] = "raised_finished"
    /\ statusChan' = PutStatus(p, FinishedMsg)
    /\ wpc' = [wpc EXCEPT ![p] = "returned"]
    /\ werr' = [werr EXCEPT ![p] = NoneStr]
    /\ UNCHANGED <<ctlVars, pumpVars, logVars, nspawned, osVars, nlogs, logChan, pc, start_q, last, cleanVars, reqVars>>

\* main returned: run_macro puts "finished"
WorkerFinished(p) ==
    /\ alive[p] /\ wpc[p] = "main"
    /\ statusChan' = PutStatus(p, FinishedMsg)
    /\ wpc' = [wpc EXCEPT ![p] = "returned"]
    /\ UNCHANGED <<ctlVars, pumpVars, logVars, nspawned, osVars, werr, nlogs, logChan, pc, start_q, last, cleanVars, reqVars>>

\* run_macro returned: the process exits with code 0
WorkerExit(p) ==
    /\ alive[p] /\ wpc[p] = "returned"
    /\ alive' = [alive EXCEPT ![p] = FALSE]
    /\ exitcode' = [exitcode EXCEPT ![p] = "0"]
    /\ wpc' = [wpc EXCEPT ![p] = "exited"]
    /\ UNCHANGED <<ctlVars, pumpVars, logVars, nspawned, sigterm, werr, nlogs, statusChan, logChan,
                   pc, start_q, last, cleanVars, reqVars>>

\* a process the controller let go of ends: the terminate() signal whose join
\* timed out takes effect, or run_macro, having reported "finished", returns
OrphanExit(p) ==
    /\ alive[p] /\ wpc[p] = "orphan"
    /\ alive' = [alive EXCEPT ![p] = FALSE]
    /\ wpc' = [wpc EXCEPT ![p] = "exited"]
    /\ UNCHANGED <<ctlVars, pumpVars, logVars, nspawned, exitcode, sigterm, werr, nlogs, statusChan,
                   logChan, pc, start_q, last, cleanVars, reqVars>>

Worker ==
    \E p \in Procs :
        \/ WorkerCrash(p)
        \/ WorkerEnterMain(p)
        \/ \E m \in ErrorMessages : WorkerRecoverableError(p, m)
        \/ \E m \in ErrorMessages : WorkerFatalError(p, m)
        \/ WorkerFatalFinished(p)
        \/ WorkerRaisedError(p)
        \/ WorkerRaisedFinished(p)
        \/ WorkerFinished(p)
        \/ WorkerExit(p)
        \/ OrphanExit(p)

\* ----- the controller's operations (request-serving context) ----------------------

Result(op, ret, got, live) == [op |-> op, ret |-> ret, got |-> got, live |-> live]

\* the statuses of the messages msgs
Statuses(msgs) == {Get(msgs[i], "status") : i \in 1..Len(msgs)}

\* self.proc is set and self.proc.is_alive()
IsLive(c, os) == c.proc /= NoProc /\ os.alive[c.proc]

\* The processes after a controller step that leaves the fields c, the processes
\* os, the worker positions w and the local queue lq of a waiting start().  A
\* Process object that self.proc no longer refers to and whose queue nobody reads
\* is unreachable: its exit code cannot be read and nothing it reports is seen, so
\* only whether it is alive and whether it was signalled is kept of it (position
\* "orphan": a process that is on its way out).
Settle(c, os, w, lq) ==
    LET refs == {c.proc, c.status_q, lq} IN
    /\ SetSelf(c)
    /\ alive' = os.alive
    /\ sigterm' = os.sigterm
    /\ exitcode' = [p \in Procs |-> IF p \in refs THEN os.exitcode[p] ELSE "None"]
    /\ wpc' = [p \in Procs |->
                 IF w[p] = "unborn" THEN "unborn"
                 ELSE IF ~os.alive[p] THEN "exited"
                 ELSE IF p \in refs THEN w[p] ELSE "orphan"]
    /\ werr' = [p \in Procs |-> IF p \in refs /\ os.alive[p] THEN werr[p] ELSE NoneStr]

\* _start_log_pump: no new thread while the current one is alive
StartLogPump(t) == IF t /= "dead" THEN t ELSE "init"

\* start(), lines 162-189: the running check, then the fields and the spawn
StartFields(c, params, p) ==
    [c EXCEPT !.last_error = NoneStr, !.current_params = params, !.proc = p,
              !.started_at = p, !.status_q = p, !.logs_q = p]

\* self.proc = mp.Process(target=run_macro, kwargs=kwargs); self.proc.start()
ProcessStarted(os, p) == [os EXCEPT !.alive = [os.alive EXCEPT ![p] = TRUE]]

\* start() without the check of running at its head
StartCallUnguarded(params) ==
    /\ pc = "idle"
    /\ nspawned < MaxRuns
    /\ LET p == nspawned + 1 IN
       /\ Settle(StartFields(Self, params, p), ProcessStarted(OS, p),
                 [wpc EXCEPT ![p] = "boot"], p)
       /\ nspawned' = p
       /\ start_q' = p
    /\ statusChan' = Held(statusChan, nspawned + 1, nspawned + 1)
    /\ log_thread' = StartLogPump(log_thread)
    /\ pc' = "start_wait"
    /\ UNCHANGED <<pump_q, log_buffer, logVars, nlogs, logChan, last, cleanVars, reqVars>>

\* start(**kwargs) up to its bounded wait status_q.get(timeout=8)
StartCall(params) ==
    /\ pc = "idle"
    /\ LET r == RunningProp(Self, alive, statusChan) IN
       IF r.ret
       THEN /\ last' = Result("start", FALSE, {}, TRUE)
            /\ Settle(r.c, OS, wpc, start_q)
            /\ UNCHANGED <<pumpVars, logVars, nspawned, nlogs, statusChan, logChan, pc, start_q, cleanVars, reqVars>>
       ELSE /\ nspawned < MaxRuns
            /\ LET p == nspawned + 1 IN
               /\ Settle(StartFields(r.c, params, p), ProcessStarted(OS, p),
                         [wpc EXCEPT ![p] = "boot"], p)
               /\ nspawned' = p
               /\ start_q' = p
            /\ statusChan' = Held(Emptied(statusChan, r.drained), nspawned + 1, nspawned + 1)
            /\ log_thread' = StartLogPump(log_thread)
            /\ pc' = "start_wait"
            /\ UNCHANGED <<pump_q, log_buffer, logVars, nlogs, logChan, last, cleanVars, reqVars>>

\* StartHandle that records the raw message and leaves the worker running
StartHandleRawError(c, os, msg, dies) ==
    IF Get(msg, "status") = "error"
    THEN [c |-> ClearRun([c EXCEPT !.last_error = OrDefault(Get(msg, "message"), DefaultStartError)]),
          os |-> os, ret |-> FALSE]
    ELSE IF Get(msg, "status") = "finished"
    THEN [c |-> ClearRun([c EXCEPT !.last_error = FinishedImmediately]), os |-> os, ret |-> FALSE]
    ELSE [c |-> c, os |-> os, ret |-> TRUE]

\* StartHandle that takes an immediate "finished" for a successful launch
StartHandleFinishedRuns(c, os, msg, dies) ==
    IF Get(msg, "status") = "error"
    THEN [c |-> ClearRun([c EXCEPT !.last_error =
                    CleanErrorMessage(OrDefault(Get(msg, "message"), DefaultStartError))]),
          os |-> EnsureTerminated(c, os, dies), ret |-> FALSE]
    ELSE [c |-> c, os |-> os, ret |-> TRUE]

\* start(), lines 206-235: the fields, the processes and the answer after the
\* first message msg
StartHandle(c, os, msg, dies) ==
    IF Get(msg, "status") = "error"
    THEN [c |-> ClearRun([c EXCEPT !.last_error =
                    CleanErrorMessage(OrDefault(Get(msg, "message"), DefaultStartError))]),
          os |-> EnsureTerminated(c, os, dies), ret |-> FALSE]
    ELSE IF Get(msg, "status") = "finished"
    THEN [c |-> ClearRun([c EXCEPT !.last_error = FinishedImmediately]), os |-> os, ret |-> FALSE]
    ELSE [c |-> c, os |-> os, ret |-> TRUE]

\* start(): a message arrived within the wait
StartGotMessage ==
    /\ pc = "start_wait"
    /\ statusChan[start_q] /= <<>>
    /\ \E dies \in BOOLEAN :
         LET h == StartHandle(Self, OS, Head(statusChan[start_q]), dies) IN
         /\ Settle(h.c, h.os, wpc, NoQ)
         /\ last' = Result("start", h.ret, Statuses(<<Head(statusChan[start_q])>>), IsLive(Self, OS))
         /\ statusChan' = Held([statusChan EXCEPT ![start_q] = Tail(@)], h.c.status_q, NoQ)
    /\ pc' = "idle"
    /\ start_q' = NoQ
    /\ UNCHANGED <<pumpVars, logVars, nspawned, nlogs, logChan, cleanVars, reqVars>>

\* StartNoMessage that treats every timeout as a failed launch
StartNoMessageFails(c, al, chan, ec) ==
    LET r == RunningProp(c, al, chan) IN
    [c |-> ClearRunKeepParams([r.c EXCEPT !.last_error =
                ExitedMessage(IF r.c.proc /= NoProc THEN ec[r.c.proc] ELSE "None")]),
     drained |-> r.drained, ret |-> FALSE]

\* start(), lines 194-204: the fields and the answer after the wait timed out
StartNoMessage(c, al, chan, ec) ==
    LET r == RunningProp(c, al, chan) IN
    IF ~r.ret
    THEN [c |-> ClearRunKeepParams([r.c EXCEPT !.last_error =
                    ExitedMessage(IF r.c.proc /= NoProc THEN ec[r.c.proc] ELSE "None")]),
          drained |-> r.drained, ret |-> FALSE]
    ELSE [c |-> r.c, drained |-> r.drained, ret |-> TRUE]

\* start(): no message within the wait
StartTimeout ==
    /\ pc = "start_wait"
    /\ statusChan[start_q] = <<>>
    /\ LET h == StartNoMessage(Self, alive, statusChan, exitcode) IN
       /\ Settle(h.c, OS, wpc, NoQ)
       /\ statusChan' = Held(Emptied(statusChan, h.drained), h.c.status_q, NoQ)
       /\ last' = Result("start", h.ret, {}, IsLive(Self, OS))
    /\ pc' = "idle"
    /\ start_q' = NoQ
    /\ UNCHANGED <<pumpVars, logVars, nspawned, nlogs, logChan, cleanVars, reqVars>>

\* StopResult that also resets last_error
StopResultResetsError(c, os, dies) ==
    IF c.proc = NoProc THEN [c |-> [c EXCEPT !.last_error = NoneStr], os |-> os, ret |-> FALSE]
    ELSE [c |-> ClearRun([c EXCEPT !.last_error = NoneStr]),
          os |-> EnsureTerminated(c, os, dies), ret |-> TRUE]

\* StopResult that keeps the run when the process outlived the join
StopResultKeepsStuck(c, os, dies) ==
    IF c.proc = NoProc THEN [c |-> c, os |-> os, ret |-> FALSE]
    ELSE IF os.alive[c.proc] /\ ~dies
    THEN [c |-> c, os |-> EnsureTerminated(c, os, dies), ret |-> FALSE]
    ELSE [c |-> ClearRun(c), os |-> EnsureTerminated(c, os, dies), ret |-> TRUE]

\* StopResult that reports success with no handle
StopResultIdleSucceeds(c, os, dies) ==
    IF c.proc = NoProc THEN [c |-> c, os |-> os, ret |-> TRUE]
    ELSE [c |-> ClearRun(c), os |-> EnsureTerminated(c, os, dies), ret |-> TRUE]

\* stop(): the fields, the processes and the answer
StopResult(c, os, dies) ==
    IF c.proc = NoProc THEN [c |-> c, os |-> os, ret |-> FALSE]
    ELSE [c |-> ClearRun(c), os |-> EnsureTerminated(c, os, dies), ret |-> TRUE]

Stop ==
    /\ pc = "idle"
    /\ \E dies \in BOOLEAN :
         LET h == StopResult(Self, OS, dies) IN
         /\ Settle(h.c, h.os, wpc, start_q)
         /\ statusChan' = Held(statusChan, h.c.status_q, start_q)
         /\ last' = Result("stop", h.ret, {}, IsLive(Self, OS))
    /\ UNCHANGED <<pumpVars, logVars, nspawned, nlogs, logChan, pc, start_q, cleanVars, reqVars>>

\* RefreshMessage that records an error and leaves the run as it is
RefreshMessageErrorKeepsRun(c, os, msg, dies) ==
    IF Get(msg, "status") = "error"
    THEN [c |-> [c EXCEPT !.last_error =
                    CleanErrorMessage(OrDefault(Get(msg, "message"), DefaultRunError))],
          os |-> os]
    ELSE IF Get(msg, "status") = "finished"
    THEN [c |-> ClearRun(c), os |-> EnsureTerminated(c, os, dies)]
    ELSE [c |-> c, os |-> os]

\* RefreshMessage that leaves a worker that reports "finished" while alive alone
RefreshMessageDefersFinished(c, os, msg, dies) ==
    IF Get(msg, "status") = "error"
    THEN [c |-> ClearRun([c EXCEPT !.last_error =
                    CleanErrorMessage(OrDefault(Get(msg, "message"), DefaultRunError))]),
          os |-> EnsureTerminated(c, os, dies)]
    ELSE IF Get(msg, "status") = "finished" /\ ~IsLive(c, os)
    THEN [c |-> ClearRun(c), os |-> os]
    ELSE [c |-> c, os |-> os]

\* refresh(), lines 289-322: one message of the loop
RefreshMessage(c, os, msg, dies) ==
    IF Get(msg, "status") = "error"
    THEN [c |-> ClearRun([c EXCEPT !.last_error =
                    CleanErrorMessage(OrDefault(Get(msg, "message"), DefaultRunError))]),
          os |-> EnsureTerminated(c, os, dies)]
    ELSE IF Get(msg, "status") = "finished"
    THEN [c |-> ClearRun(c), os |-> EnsureTerminated(c, os, dies)]
    ELSE [c |-> c, os |-> os]

RECURSIVE RefreshLoopJoinsAlways(_, _, _, _)
\* RefreshLoop with the terminate and join hoisted out of the message branches:
\* a live worker is signalled and joined on every refresh()
RefreshLoopJoinsAlways(c, os, msgs, dies) ==
    IF msgs = <<>> THEN [c |-> c, os |-> EnsureTerminated(c, os, dies)]
    ELSE LET m == RefreshMessage(c, os, Head(msgs), dies) IN
         RefreshLoopJoinsAlways(m.c, m.os, Tail(msgs), dies)

RECURSIVE RefreshLoop(_, _, _, _)
\* refresh(), lines 287-325: the loop over the queued messages msgs
RefreshLoop(c, os, msgs, dies) ==
    IF msgs = <<>> THEN [c |-> c, os |-> os]
    ELSE LET m == RefreshMessage(c, os, Head(msgs), dies) IN
         RefreshLoop(m.c, m.os, Tail(msgs), dies)

\* RefreshResult that forgets when the run started
RefreshResultResetsStart(c, os, chan, dies) ==
    IF c.proc /= NoProc /\ ~os.alive[c.proc] /\ (c.status_q /= NoQ \/ c.logs_q /= NoQ)
    THEN [c |-> ClearRun([c EXCEPT !.last_error = DrainErrors(c.last_error, Content(chan, c.status_q))]),
          os |-> os, drained |-> c.status_q]
    ELSE LET l == RefreshLoop(c, os, Content(chan, c.status_q), dies) IN
         [c |-> [l.c EXCEPT !.started_at = NoTime], os |-> l.os, drained |-> c.status_q]

\* refresh(): the fields and the processes afterwards, and the queue it emptied
RefreshResult(c, os, chan, dies) ==
    IF c.proc /= NoProc /\ ~os.alive[c.proc] /\ (c.status_q /= NoQ \/ c.logs_q /= NoQ)
    THEN [c |-> ClearRun([c EXCEPT !.last_error = DrainErrors(c.last_error, Content(chan, c.status_q))]),
          os |-> os, drained |-> c.status_q]
    ELSE LET l == RefreshLoop(c, os, Content(chan, c.status_q), dies) IN
         [c |-> l.c, os |-> l.os, drained |-> c.status_q]

\* refresh() returns None, recorded as ret FALSE
Refresh ==
    /\ pc = "idle"
    /\ \E dies \in BOOLEAN :
         LET h == RefreshResult(Self, OS, statusChan, dies) IN
         /\ Settle(h.c, h.os, wpc, start_q)
         /\ statusChan' = Held(Emptied(statusChan, h.drained), h.c.status_q, start_q)
    /\ last' = Result("refresh", FALSE, Statuses(Content(statusChan, status_q)), IsLive(Self, OS))
    /\ UNCHANGED <<pumpVars, logVars, nspawned, nlogs, logChan, pc, start_q, cleanVars, reqVars>>

\* the property running read by a handler
RunningQuery ==
    /\ pc = "idle"
    /\ LET r == RunningProp(Self, alive, statusChan) IN
       /\ Settle(r.c, OS, wpc, start_q)
       /\ statusChan' = Held(Emptied(statusChan, r.drained), r.c.status_q, start_q)
       /\ last' = Result("running", r.ret, Statuses(Content(statusChan, r.drained)), IsLive(Self, OS))
    /\ UNCHANGED <<pumpVars, logVars, nspawned, nlogs, logChan, pc, start_q, cleanVars, reqVars>>

\* ----- the log pump thread (_start_log_pump._worker) ------------------------------

LogBufferMaxLen == 500

\* DequeAppend of a deque without maxlen
DequeAppendUnbounded(buf, x) == Append(buf, x)

\* deque(maxlen=500).append
DequeAppend(buf, x) ==
    IF Len(buf) < LogBufferMaxLen THEN Append(buf, x) ELSE Append(Tail(buf), x)

\* q = self._logs_q; if q is None: break
PumpInit ==
    /\ log_thread = "init"
    /\ pump_q' = logs_q
    /\ log_thread' = IF logs_q = NoQ THEN "final" ELSE "loop"
    /\ UNCHANGED <<ctlVars, log_buffer, logVars, nspawned, osVars, workerVars, statusChan, logChan,
                   pc, start_q, last, cleanVars, reqVars>>

\* _append_log(line): the ring buffer, then loop.call_soon_threadsafe(_safe_put, q,
\* line) for every registered listener ls[i], in order
AppendLog(buf, calls, ls, line) ==
    [buf |-> DequeAppend(buf, line),
     calls |-> calls \o [i \in 1..Len(ls) |-> [q |-> ls[i], line |-> line]]]

\* the None that stands for the sentinel on a logs queue
NoneLine == <<NoProc, 0>>

\* line = q.get(timeout=0.5); if line is None: break; self._append_log(str(line))
PumpRead ==
    /\ log_thread = "loop"
    /\ logChan[pump_q] /= <<>>
    /\ IF Head(logChan[pump_q]) = NoneLine
       THEN /\ log_thread' = "final"
            /\ UNCHANGED <<log_buffer, loop_calls, nappended>>
       ELSE /\ LET a == AppendLog(log_buffer, loop_calls, listeners, Head(logChan[pump_q])) IN
               /\ log_buffer' = a.buf
               /\ loop_calls' = a.calls
            /\ nappended' = nappended + 1
            /\ UNCHANGED log_thread
    /\ logChan' = [logChan EXCEPT ![pump_q] = Tail(@)]
    /\ UNCHANGED <<ctlVars, pump_q, nspawned, osVars, workerVars, statusChan,
                   pc, start_q, last, listeners, sub_q, nsubscribed, cleanVars, reqVars>>

\* PumpTimeout that leaves the loop on the first timeout, whatever running says
PumpTimeoutBreaksAlways ==
    /\ log_thread = "loop"
    /\ logChan[pump_q] = <<>>
    /\ LET r == RunningProp(Self, alive, statusChan) IN
       /\ Settle(r.c, OS, wpc, start_q)
       /\ statusChan' = Held(Emptied(statusChan, r.drained), r.c.status_q, start_q)
       /\ log_thread' = "final"
    /\ UNCHANGED <<pump_q, log_buffer, logVars, nspawned, nlogs, logChan, pc, start_q, last, cleanVars, reqVars>>

\* the get timed out: if not self.running: break
PumpTimeout ==
    /\ log_thread = "loop"
    /\ logChan[pump_q] = <<>>
    /\ LET r == RunningProp(Self, alive, statusChan) IN
       /\ Settle(r.c, OS, wpc, start_q)
       /\ statusChan' = Held(Emptied(statusChan, r.drained), r.c.status_q, start_q)
       /\ log_thread' = IF r.ret THEN "loop" ELSE "final"
    /\ UNCHANGED <<pump_q, log_buffer, logVars, nspawned, nlogs, logChan, pc, start_q, last, cleanVars, reqVars>>

\* finalize: self._logs_q = None, and the thread ends
PumpFinalize ==
    /\ log_thread = "final"
    /\ logs_q' = NoQ
    /\ log_thread' = "dead"
    /\ pump_q' = NoQ
    /\ UNCHANGED <<proc, started_at, last_error, status_q, current_params, log_buffer, logVars,
                   nspawned, osVars, workerVars, statusChan, logChan, pc, start_q, last, cleanVars, reqVars>>

\* the pump thread as far as it touches the run state
Pump == PumpInit \/ PumpTimeout \/ PumpFinalize

\* ----- subscribers (subscribe, unsubscribe, logs_stream) and the event loop ---------

ListenerMaxSize == 1000

\* the queues registered in the listener list ls
Registered(ls) == {ls[i] : i \in 1..Len(ls)}

\* subscribe(): a new asyncio.Queue(maxsize=1000) is appended to the listeners
Subscribe ==
    /\ nsubscribed < MaxSubscribers
    /\ nsubscribed' = nsubscribed + 1
    /\ listeners' = Append(listeners, nsubscribed + 1)
    /\ sub_q' = [sub_q EXCEPT ![nsubscribed + 1] = <<>>]
    /\ UNCHANGED <<ctlVars, pumpVars, nspawned, osVars, workerVars, statusChan, logChan,
                   pc, start_q, last, loop_calls, nappended, cleanVars, reqVars>>

\* unsubscribe(q): q leaves the listeners and is drained
Unsubscribe(s) ==
    /\ s \in Registered(listeners)
    /\ listeners' = SelectSeq(listeners, LAMBDA x : x /= s)
    /\ sub_q' = [sub_q EXCEPT ![s] = <<>>]
    /\ UNCHANGED <<ctlVars, pumpVars, nspawned, osVars, workerVars, statusChan, logChan,
                   pc, start_q, last, loop_calls, nsubscribed, nappended, cleanVars, reqVars>>

\* event_gen of logs_stream: line = await q.get()
SubscriberGet(s) ==
    /\ s \in Registered(listeners)
    /\ sub_q[s] /= <<>>
    /\ sub_q' = [sub_q EXCEPT ![s] = Tail(@)]
    /\ UNCHANGED <<ctlVars, pumpVars, nspawned, osVars, workerVars, statusChan, logChan,
                   pc, start_q, last, listeners, loop_calls, nsubscribed, nappended, cleanVars, reqVars>>

\* SafePut on a queue without maxsize
SafePutUnbounded(content, item) == Append(content, item)

\* _safe_put(q, item): q.put_nowait(item); the QueueFull of a full queue is swallowed
SafePut(content, item) ==
    IF Len(content) < ListenerMaxSize THEN Append(content, item) ELSE content

\* the event loop runs the oldest pending callback; what is put on a queue that
\* was unsubscribed meanwhile is never read
LoopRun ==
    /\ loop_calls /= <<>>
    /\ sub_q' = IF Head(loop_calls).q \in Registered(listeners)
                THEN [sub_q EXCEPT ![Head(loop_calls).q] = SafePut(@, Head(loop_calls).line)]
                ELSE sub_q
    /\ loop_calls' = Tail(loop_calls)
    /\ UNCHANGED <<ctlVars, pumpVars, nspawned, osVars, workerVars, statusChan, logChan,
                   pc, start_q, last, listeners, nsubscribed, nappended, cleanVars, reqVars>>

\* ----- the specification -------------------------------------------------------------

Controller ==
    \/ \E params \in Params : StartCall(params)
    \/ StartGotMessage
    \/ StartTimeout
    \/ Stop
    \/ Refresh
    \/ RunningQuery

Next == Controller \/ Worker \/ Pump

Spec == Init /\ [][Next]_vars

\* the first start() of the server
FirstStart == nspawned = 0 /\ StartCall("A-B")

\* ----- status(), stop() and the running query statement by statement ------------------
\* The handlers run in the server's thread pool while the pump thread evaluates
\* running and clears the handle: every read of self.proc is a step of its own.

\* the Process object's pid: the process p has pid p
Pid(p) == p

\* status(): STATE.refresh()
StatusRefresh ==
    /\ pc = "idle"
    /\ \E dies \in BOOLEAN :
         LET h == RefreshResult(Self, OS, statusChan, dies) IN
         /\ Settle(h.c, h.os, wpc, start_q)
         /\ statusChan' = Held(Emptied(statusChan, h.drained), h.c.status_q, start_q)
    /\ response' = NoResponse
    /\ pc' = "status_running"
    /\ UNCHANGED <<pc2, pumpVars, logVars, cleanVars, nspawned, nlogs, logChan, start_q, last,
                   raised>>

\* status(): "running": STATE.running
StatusRunning ==
    /\ pc = "status_running"
    /\ LET r == RunningProp(Self, alive, statusChan) IN
       /\ Settle(r.c, OS, wpc, start_q)
       /\ statusChan' = Held(Emptied(statusChan, r.drained), r.c.status_q, start_q)
       /\ response' = [response EXCEPT !.running = r.ret]
    /\ pc' = "status_proc"
    /\ UNCHANGED <<pc2, pumpVars, logVars, cleanVars, nspawned, nlogs, logChan, start_q, last,
                   raised>>

\* status(): "pid": ... if STATE.proc else None
StatusProc ==
    /\ pc = "status_proc"
    /\ IF proc = NoProc
       THEN /\ response' = [response EXCEPT !.pid = NoProc]
            /\ last' = Result("status", response.running, {}, FALSE)
            /\ pc' = "idle"
       ELSE /\ pc' = "status_pid"
            /\ UNCHANGED <<response, last>>
    /\ UNCHANGED <<pc2, ctlVars, pumpVars, logVars, cleanVars, nspawned, osVars, workerVars,
                   statusChan, logChan, start_q, raised>>

\* status(): "pid": STATE.proc.pid, with STATE.proc read again
StatusPid ==
    /\ pc = "status_pid"
    /\ IF proc = NoProc
       THEN /\ raised' = "AttributeError"
            /\ UNCHANGED <<response, last>>
       ELSE /\ response' = [response EXCEPT !.pid = Pid(proc)]
            /\ last' = Result("status", response.running, {}, IsLive(Self, OS))
            /\ UNCHANGED raised
    /\ pc' = "idle"
    /\ UNCHANGED <<pc2, ctlVars, pumpVars, logVars, cleanVars, nspawned, osVars, workerVars,
                   statusChan, logChan, start_q>>

\* stop(): if not self.proc: return False
StopCheck ==
    /\ pc = "idle"
    /\ IF proc = NoProc
       THEN /\ last' = Result("stop", FALSE, {}, FALSE)
            /\ pc' = "idle"
       ELSE /\ pc' = "stop_alive"
            /\ UNCHANGED last
    /\ UNCHANGED <<ctlVars, pumpVars, logVars, cleanVars, reqVars, nspawned, osVars,
                   workerVars, statusChan, logChan, start_q>>

\* stop(): if self.proc.is_alive():
StopAlive ==
    /\ pc = "stop_alive"
    /\ IF proc = NoProc
       THEN raised' = "AttributeError" /\ pc' = "idle"
       ELSE /\ pc' = IF alive[proc] THEN "stop_terminate" ELSE "stop_clear"
            /\ UNCHANGED raised
    /\ UNCHANGED <<pc2, ctlVars, pumpVars, logVars, cleanVars, response, nspawned, osVars,
                   workerVars, statusChan, logChan, start_q, last>>

\* stop(): self.proc.terminate()
StopTerminate ==
    /\ pc = "stop_terminate"
    /\ IF proc = NoProc
       THEN raised' = "AttributeError" /\ pc' = "idle" /\ UNCHANGED sigterm
       ELSE /\ sigterm' = [sigterm EXCEPT ![proc] = TRUE]
            /\ pc' = "stop_join"
            /\ UNCHANGED raised
    /\ UNCHANGED <<pc2, ctlVars, pumpVars, logVars, cleanVars, response, nspawned, alive,
                   exitcode, workerVars, statusChan, logChan, start_q, last>>

\* stop(): try: self.proc.join(timeout=5) except Exception: pass
StopJoin ==
    /\ pc = "stop_join"
    /\ IF proc /= NoProc /\ alive[proc]
       THEN \E dies \in BOOLEAN :
              LET os == Terminated(OS, proc, dies) IN
              /\ alive' = os.alive
              /\ exitcode' = os.exitcode
              /\ wpc' = IF dies THEN [wpc EXCEPT ![proc] = "exited"] ELSE wpc
       ELSE UNCHANGED <<alive, exitcode, wpc>>
    /\ pc' = "stop_clear"
    /\ UNCHANGED <<ctlVars, pumpVars, logVars, cleanVars, reqVars, nspawned, sigterm,
                   werr, nlogs, statusChan, logChan, start_q, last>>

\* stop(): the five fields are cleared; return True
StopClear ==
    /\ pc = "stop_clear"
    /\ Settle(ClearRun(Self), OS, wpc, start_q)
    /\ statusChan' = Held(statusChan, NoQ, start_q)
    /\ last' = Result("stop", TRUE, {}, IsLive(Self, OS))
    /\ pc' = "idle"
    /\ UNCHANGED <<pumpVars, logVars, cleanVars, reqVars, nspawned, nlogs, logChan, start_q>>

\* running read by a handler: if self.proc is None: return False
RunningCheck ==
    /\ pc = "idle"
    /\ IF proc = NoProc
       THEN /\ last' = Result("running", FALSE, {}, FALSE)
            /\ pc' = "idle"
       ELSE /\ pc' = "running_alive"
            /\ UNCHANGED last
    /\ UNCHANGED <<ctlVars, pumpVars, logVars, cleanVars, reqVars, nspawned, osVars,
                   workerVars, statusChan, logChan, start_q>>

\* running: if not self.proc.is_alive(): ... and the rest of the property
RunningAlive ==
    /\ pc = "running_alive"
    /\ IF proc = NoProc
       THEN /\ raised' = "AttributeError"
            /\ UNCHANGED <<ctlVars, osVars, workerVars, statusChan, last>>
       ELSE /\ LET r == RunningProp(Self, alive, statusChan) IN
               /\ Settle(r.c, OS, wpc, start_q)
               /\ statusChan' = Held(Emptied(statusChan, r.drained), r.c.status_q, start_q)
               /\ last' = Result("running", r.ret, Statuses(Content(statusChan, r.drained)),
                                 IsLive(Self, OS))
            /\ UNCHANGED raised
    /\ pc' = "idle"
    /\ UNCHANGED <<pc2, pumpVars, logVars, cleanVars, response, nspawned, nlogs, logChan, start_q>>

NextThreads ==
    \/ \E params \in Params : StartCall(params)
    \/ StartTimeout
    \/ \E p \in Procs : WorkerCrash(p)
    \/ PumpInit
    \/ PumpTimeout
    \/ PumpFinalize
    \/ StatusRefresh
    \/ StatusRunning
    \/ StatusProc
    \/ StatusPid
    \/ StopCheck
    \/ StopAlive
    \/ StopTerminate
    \/ StopJoin
    \/ StopClear
    \/ RunningCheck
    \/ RunningAlive

SpecThreads == Init /\ [][NextThreads]_vars

\* ----- _clean_error_message on its own --------------------------------------------------

\* the lines raw messages are made of: empty, blank, text, padded text, the two
\* markers, an indented marker, and text that only contains a marker word
RawLines ==
    { <<>>, <<SP>>, <<"Boom">>, <<SP, "Boom", SP>>, <<TB, "...">>, <<FQ, "...">>,
      <<SP, FQ, "...">>, <<"Boom", TB>> }

\* the raw messages: what error_msg.split('\n') can be, up to MaxMsgLines lines
RawMessages == UNION {[1..n -> RawLines] : n \in 1..MaxMsgLines}

InitClean == InitRun /\ error_msg \in RawMessages /\ cleaned = NoneStr

\* the call returns
CleanCall ==
    /\ cleaned = NoneStr
    /\ cleaned' = CleanErrorMessage(error_msg)
    /\ UNCHANGED <<ctlVars, pumpVars, logVars, reqVars, nspawned, osVars, workerVars,
                   statusChan, logChan, pc, start_q, last, error_msg>>

SpecClean == InitClean /\ [][CleanCall]_vars

\* ----- one run whose worker reports any raw message ----------------------------------------

\* the messages such a worker reports
ReportedMessages == UNION {[1..n -> RawLines] : n \in 1..MaxReportedLines}

NextErrors ==
    \/ FirstStart
    \/ StartGotMessage
    \/ StartTimeout
    \/ Refresh
    \/ RunningQuery
    \/ \E p \in Procs : WorkerEnterMain(p)
    \/ \E p \in Procs : WorkerCrash(p)
    \/ \E p \in Procs : \E m \in ReportedMessages : WorkerFatalError(p, m)
    \/ \E p \in Procs : WorkerFatalFinished(p)
    \/ \E p \in Procs : WorkerRaisedError(p)
    \/ \E p \in Procs : WorkerRaisedFinished(p)
    \/ \E p \in Procs : WorkerExit(p)
    \/ PumpInit
    \/ PumpTimeout
    \/ PumpFinalize

SpecErrors == Init /\ [][NextErrors]_vars

\* ----- the log path: one run, its lines, the pump, the subscribers ---------------------

\* the worker prints, once start() has returned, while the pump and the event
\* loop keep up
PacedWorkerLog(p) ==
    pc = "idle" /\ Len(logChan[p]) + Len(loop_calls) < MaxLag /\ WorkerLog(p)

\* the pump appends while the event loop keeps up
PacedPumpRead == Len(loop_calls) < MaxLag /\ PumpRead

\* clients connect and read during the first lines, then stall
EarlySubscribe == nappended <= MaxEarlyLines /\ Subscribe

EarlyGet(s) == nappended <= MaxEarlyLines /\ SubscriberGet(s)

EarlyUnsubscribe(s) == nappended <= MaxEarlyLines /\ Unsubscribe(s)

NextLogs ==
    \/ FirstStart
    \/ StartTimeout
    \/ \E p \in Procs : PacedWorkerLog(p)
    \/ PumpInit
    \/ PacedPumpRead
    \/ PumpTimeout
    \/ EarlySubscribe
    \/ \E s \in Subscribers : EarlyUnsubscribe(s)
    \/ \E s \in Subscribers : EarlyGet(s)
    \/ LoopRun

SpecLogs == Init /\ [][NextLogs]_vars

\* ----- a short run with its log path, stopped or crashed at any point -------------------

\* the worker of a short run prints
ShortWorkerLog(p) == nlogs[p] < MaxShortLines /\ WorkerLog(p)

NextShort ==
    \/ FirstStart
    \/ StartTimeout
    \/ Stop
    \/ \E p \in Procs : WorkerCrash(p)
    \/ \E p \in Procs : ShortWorkerLog(p)
    \/ PumpInit
    \/ PumpRead
    \/ PumpTimeout
    \/ PumpFinalize
    \/ Subscribe
    \/ \E s \in Subscribers : Unsubscribe(s)
    \/ \E s \in Subscribers : SubscriberGet(s)
    \/ LoopRun

SpecShort == Init /\ [][NextShort]_vars

\* ----- the page handler, which appends a line of its own ----------------------------------

\* the line "[ui] ..." a handler appends
UiLine == <<NoProc, 1>>

\* index(): STATE._append_log("[ui] ..."), then render_page(): STATE.refresh(),
\* STATE.running
Index ==
    /\ pc = "idle"
    /\ Cardinality({i \in 1..Len(log_buffer) : log_buffer[i] = UiLine}) < MaxUiLines
    /\ LET a == AppendLog(log_buffer, loop_calls, listeners, UiLine) IN
       /\ log_buffer' = a.buf
       /\ loop_calls' = a.calls
    /\ nappended' = nappended + 1
    /\ \E dies \in BOOLEAN :
         LET h == RefreshResult(Self, OS, statusChan, dies)
             chan == Emptied(statusChan, h.drained)
             r == RunningProp(h.c, h.os.alive, chan)
         IN  /\ Settle(r.c, h.os, wpc, start_q)
             /\ statusChan' = Held(Emptied(chan, r.drained), r.c.status_q, start_q)
             /\ last' = Result("index", r.ret, Statuses(Content(statusChan, status_q)),
                               IsLive(Self, OS))
    /\ UNCHANGED <<log_thread, pump_q, listeners, sub_q, nsubscribed, nspawned, nlogs,
                   logChan, pc, start_q, cleanVars, reqVars>>

NextWriters ==
    \/ FirstStart
    \/ StartTimeout
    \/ Index
    \/ \E p \in Procs : WorkerCrash(p)
    \/ \E p \in Procs : ShortWorkerLog(p)
    \/ PumpInit
    \/ PumpRead
    \/ PumpTimeout
    \/ PumpFinalize
    \/ Subscribe
    \/ LoopRun

SpecWriters == Init /\ [][NextWriters]_vars

\* ----- _append_log statement by statement, with its two callers ----------------------------
\* The pump thread and the page handler both run _append_log; a thread switch
\* can fall between its append to the ring buffer and its loop over the listeners.

\* the pump thread: line = q.get(timeout=0.5); if line is None: break;
\* _append_log: self._log_buffer.append(line).  The line it holds stays at the
\* head of the queue's content until it has scheduled it
PumpAppend ==
    /\ log_thread = "loop"
    /\ logChan[pump_q] /= <<>>
    /\ IF Head(logChan[pump_q]) = NoneLine
       THEN /\ log_thread' = "final"
            /\ logChan' = [logChan EXCEPT ![pump_q] = Tail(@)]
            /\ UNCHANGED <<log_buffer, nappended>>
       ELSE /\ log_buffer' = DequeAppend(log_buffer, Head(logChan[pump_q]))
            /\ nappended' = nappended + 1
            /\ log_thread' = "broadcast"
            /\ UNCHANGED logChan
    /\ UNCHANGED <<ctlVars, pump_q, nspawned, osVars, workerVars, statusChan, pc, start_q,
                   last, listeners, sub_q, loop_calls, nsubscribed, cleanVars, reqVars>>

\* the pump thread, _append_log: for loop, q in list(self._listeners):
\* loop.call_soon_threadsafe(_safe_put, q, line)
PumpBroadcast ==
    /\ log_thread = "broadcast"
    /\ loop_calls' = AppendLog(log_buffer, loop_calls, listeners, Head(logChan[pump_q])).calls
    /\ logChan' = [logChan EXCEPT ![pump_q] = Tail(@)]
    /\ log_thread' = "loop"
    /\ UNCHANGED <<ctlVars, pump_q, log_buffer, nspawned, osVars, workerVars, statusChan,
                   pc, start_q, last, listeners, sub_q, nsubscribed, nappended, cleanVars,
                   reqVars>>

\* index(), _append_log: self._log_buffer.append("[ui] ...")
IndexAppend ==
    /\ pc = "idle"
    /\ Cardinality({i \in 1..Len(log_buffer) : log_buffer[i] = UiLine}) < MaxUiLines
    /\ log_buffer' = DequeAppend(log_buffer, UiLine)
    /\ nappended' = nappended + 1
    /\ pc' = "index_broadcast"
    /\ UNCHANGED <<ctlVars, log_thread, pump_q, nspawned, osVars, workerVars, statusChan,
                   logChan, start_q, last, listeners, sub_q, loop_calls, nsubscribed,
                   cleanVars, reqVars>>

\* index(), _append_log: the loop over list(self._listeners); then render_page()
IndexBroadcast ==
    /\ pc = "index_broadcast"
    /\ loop_calls' = AppendLog(log_buffer, loop_calls, listeners, UiLine).calls
    /\ \E dies \in BOOLEAN :
         LET h == RefreshResult(Self, OS, statusChan, dies)
             chan == Emptied(statusChan, h.drained)
             r == RunningProp(h.c, h.os.alive, chan)
         IN  /\ Settle(r.c, h.os, wpc, start_q)
             /\ statusChan' = Held(Emptied(chan, r.drained), r.c.status_q, start_q)
             /\ last' = Result("index", r.ret, Statuses(Content(statusChan, status_q)),
                               IsLive(Self, OS))
    /\ pc' = "idle"
    /\ UNCHANGED <<pumpVars, listeners, sub_q, nsubscribed, nappended, nspawned, nlogs,
                   logChan, start_q, cleanVars, reqVars>>

\* the first client connects before any line is appended, the others at any time
DeliverySubscribe == (nsubscribed = 0 => nappended = 0) /\ Subscribe

NextDelivery ==
    \/ FirstStart
    \/ StartTimeout
    \/ \E p \in Procs : ShortWorkerLog(p)
    \/ PumpInit
    \/ PumpAppend
    \/ PumpBroadcast
    \/ PumpTimeout
    \/ IndexAppend
    \/ IndexBroadcast
    \/ DeliverySubscribe
    \/ \E s \in Subscribers : Unsubscribe(s)
    \/ LoopRun

SpecDelivery == Init /\ [][NextDelivery]_vars

\* ----- one worker from its start to its end, and the start() that waits for it -------------

NextWorker ==
    \/ FirstStart
    \/ StartGotMessage
    \/ StartTimeout
    \/ \E p \in Procs : WorkerEnterMain(p)
    \/ \E p \in Procs : WorkerCrash(p)
    \/ \E p \in Procs : \E m \in ErrorMessages : WorkerRecoverableError(p, m)
    \/ \E p \in Procs : \E m \in ReportedMessages : WorkerFatalError(p, m)
    \/ \E p \in Procs : WorkerFatalFinished(p)
    \/ \E p \in Procs : WorkerRaisedError(p)
    \/ \E p \in Procs : WorkerRaisedFinished(p)
    \/ \E p \in Procs : WorkerFinished(p)
    \/ \E p \in Procs : WorkerExit(p)

SpecWorker == Init /\ [][NextWorker]_vars

\* ----- the pump thread over two short runs, under its scheduling ---------------------------

\* a None arrives on the logs queue of process p, the one the controller holds: a
\* shutdown sequence signals the pump (at most one on a queue at a time)
SentinelPut(p) ==
    /\ p = logs_q
    /\ \A i \in 1..Len(logChan[p]) : logChan[p][i] /= NoneLine
    /\ logChan' = Put(logChan, p, NoneLine)
    /\ UNCHANGED <<ctlVars, pumpVars, logVars, nspawned, osVars, workerVars, statusChan,
                   pc, start_q, last, cleanVars, reqVars>>

\* the workers of these runs print while fewer than MaxPumpLines lines are appended
\* or waiting on their queue
PumpWorkerLog(p) == nappended + Len(logChan[p]) < MaxPumpLines /\ nlogs[p] < MaxPumpLines /\ WorkerLog(p)

NextPump ==
    \/ StartCall("A-B")
    \/ StartTimeout
    \/ Stop
    \/ \E p \in Procs : WorkerCrash(p)
    \/ \E p \in Procs : PumpWorkerLog(p)
    \/ \E p \in Procs : SentinelPut(p)
    \/ PumpInit
    \/ PumpRead
    \/ PumpTimeout
    \/ PumpFinalize

\* the pump is a thread of its own: the scheduler runs it, and each q.get returns
\* within its timeout
SpecPump ==
    /\ Init /\ [][NextPump]_vars
    /\ WF_vars(PumpInit) /\ WF_vars(PumpRead) /\ WF_vars(PumpTimeout) /\ WF_vars(PumpFinalize)

\* ----- two request threads inside start() at once ------------------------------------------

\* start(), line 162, in the first request thread: `if self.running: return False`
StartCheck ==
    /\ pc = "idle"
    /\ LET r == RunningProp(Self, alive, statusChan) IN
       /\ Settle(r.c, OS, wpc, start_q)
       /\ statusChan' = Held(Emptied(statusChan, r.drained), r.c.status_q, start_q)
       /\ IF r.ret
          THEN last' = Result("start", FALSE, {}, TRUE) /\ pc' = pc
          ELSE last' = last /\ pc' = "start_checked"
    /\ UNCHANGED <<pumpVars, logVars, nspawned, nlogs, logChan, start_q, cleanVars, reqVars>>

\* start(), lines 165-189, in the first request thread: the fields, the spawn and
\* the pump, up to the bounded wait
StartSpawn(params) ==
    /\ pc = "start_checked"
    /\ nspawned < MaxRuns
    /\ LET p == nspawned + 1 IN
       /\ Settle(StartFields(Self, params, p), ProcessStarted(OS, p),
                 [wpc EXCEPT ![p] = "boot"], p)
       /\ nspawned' = p
       /\ start_q' = p
       /\ statusChan' = Held(statusChan, p, p)
    /\ log_thread' = StartLogPump(log_thread)
    /\ pc' = "start_wait"
    /\ UNCHANGED <<pump_q, log_buffer, logVars, nlogs, logChan, last, cleanVars, reqVars>>

\* start(), line 162, in the second request thread
Start2Check ==
    /\ pc2 = "idle"
    /\ LET r == RunningProp(Self, alive, statusChan) IN
       /\ Settle(r.c, OS, wpc, start_q)
       /\ statusChan' = Held(Emptied(statusChan, r.drained), r.c.status_q, start_q)
       /\ IF r.ret
          THEN last' = Result("start", FALSE, {}, TRUE) /\ pc2' = pc2
          ELSE last' = last /\ pc2' = "checked"
    /\ UNCHANGED <<pumpVars, logVars, nspawned, nlogs, logChan, pc, start_q, cleanVars,
                   response, raised>>

\* start(), lines 165-189, in the second request thread
Start2Spawn(params) ==
    /\ pc2 = "checked"
    /\ nspawned < MaxRuns
    /\ LET p == nspawned + 1 IN
       /\ Settle(StartFields(Self, params, p), ProcessStarted(OS, p),
                 [wpc EXCEPT ![p] = "boot"], start_q)
       /\ nspawned' = p
       /\ statusChan' = Held(statusChan, p, start_q)
    /\ log_thread' = StartLogPump(log_thread)
    /\ pc2' = "wait"
    /\ UNCHANGED <<pump_q, log_buffer, logVars, nlogs, logChan, last, pc, start_q, cleanVars,
                   response, raised>>

\* start(), lines 193-204, in the second request thread: no message within its wait
Start2Timeout ==
    /\ pc2 = "wait"
    /\ LET h == StartNoMessage(Self, alive, statusChan, exitcode) IN
       /\ Settle(h.c, OS, wpc, start_q)
       /\ statusChan' = Held(Emptied(statusChan, h.drained), h.c.status_q, start_q)
       /\ last' = Result("start", h.ret, {}, IsLive(Self, OS))
    /\ pc2' = "idle"
    /\ UNCHANGED <<pumpVars, logVars, nspawned, nlogs, logChan, pc, start_q, cleanVars,
                   response, raised>>

\* two requests to start within the wait of start(), in which a worker reports nothing
NextStarts ==
    \/ StartCheck
    \/ \E params \in Params : StartSpawn(params)
    \/ StartTimeout
    \/ Start2Check
    \/ \E params \in Params : Start2Spawn(params)
    \/ Start2Timeout
    \/ \E p \in Procs : WorkerCrash(p)
    \/ PumpInit
    \/ PumpTimeout
    \/ PumpFinalize

SpecStarts == Init /\ [][NextStarts]_vars

\* ----- polling a run that writes log lines to connected clients -------------------------

NextPolling ==
    \/ FirstStart
    \/ StartTimeout
    \/ Refresh
    \/ RunningQuery
    \/ \E p \in Procs : WorkerEnterMain(p)
    \/ \E p \in Procs : \E m \in ErrorMessages : WorkerRecoverableError(p, m)
    \/ \E p \in Procs : WorkerCrash(p)
    \/ \E p \in Procs : PumpWorkerLog(p)
    \/ PumpInit
    \/ PumpRead
    \/ PumpTimeout
    \/ PumpFinalize
    \/ Subscribe
    \/ LoopRun

SpecPolling == Init /\ [][NextPolling]_vars

\* ----- properties ------------------------------------------------------------------

\* the run state is the cleared one
Idle == proc = NoProc /\ started_at = NoTime /\ current_params = NoParams

IdleNext == proc' = NoProc /\ started_at' = NoTime /\ current_params' = NoParams

\* the messages queued for the controller
Queued == Content(statusChan, status_q)

RECURSIVE LastErrorText(_)
\* the text of the last "error" message among msgs, NoneStr for none
LastErrorText(msgs) ==
    IF msgs = <<>> THEN NoneStr
    ELSE IF Get(msgs[Len(msgs)], "status") = "error" THEN Get(msgs[Len(msgs)], "message")
    ELSE LastErrorText(SubSeq(msgs, 1, Len(msgs) - 1))

\* what the operator is to read for the worker's text m, with default d for no text
Shown(m, d) ==
    CASE m = BoomTraceback -> Boom
      [] m = EmptyStr -> d
      [] OTHER -> m

\* C1: a start() issued while the controller's worker is alive returns failure and
\* leaves the run untouched: handle, started_at, current_params, last_error, both
\* channels and the processes are unchanged and no process is spawned.
C1_StartWhileRunningRejected ==
    [][(pc = "idle" /\ IsLive(Self, OS) /\ \E params \in Params : StartCall(params))
        => /\ last'.op = "start" /\ last'.ret = FALSE
           /\ UNCHANGED <<proc, started_at, current_params, last_error, status_q, logs_q,
                          statusChan, logChan, alive, exitcode, sigterm, wpc, nspawned,
                          log_thread, pc>>]_vars

\* a start() has just been rejected and the run it met is still there
C1_Witness ==
    /\ pc = "idle" /\ last.op = "start" /\ ~last.ret /\ last.live
    /\ IsLive(Self, OS) /\ nspawned = 1

\* C2: at most one worker process spawned by the controller is alive at any instant.
C2_AtMostOneAlive == Cardinality({p \in Procs : alive[p]}) <= 1

\* C3: between controller operations the run state moves as a unit: a handle comes
\* with started_at, no handle means no started_at and no current_params; every
\* step that removes the handle clears the three together without erasing
\* last_error, and while the controller stays idle between operations last_error
\* keeps the value the terminating step left.
C3_RunStateMovesAsUnit ==
    /\ [](pc = "idle" => /\ proc /= NoProc => started_at /= NoTime
                         /\ proc = NoProc => started_at = NoTime /\ current_params = NoParams)
    /\ [][/\ (proc /= NoProc /\ proc' = NoProc)
               => IdleNext /\ (last_error /= NoneStr => last_error' /= NoneStr)
          /\ (pc = "idle" /\ pc' = "idle" /\ proc = NoProc /\ proc' = NoProc)
               => last_error' = last_error]_vars

\* a refresh() has ended a run on an error: idle, and the error is there
C3_Witness ==
    /\ pc = "idle" /\ last.op = "refresh" /\ "error" \in last.got
    /\ Idle /\ last_error = Boom

\* C4: once last_error holds a text, only a start() that passes the running check
\* resets it to None: no stop(), refresh(), running query or rejected start() does.
C4_LastErrorKept ==
    [][(last_error /= NoneStr /\ last_error' = NoneStr) => (pc = "idle" /\ pc' = "start_wait")]_vars

\* a stop() on the idle controller has returned failure and the error of the run
\* that ended before is still there
C4_Witness ==
    /\ pc = "idle" /\ last.op = "stop" /\ ~last.ret
    /\ Idle /\ last_error /= NoneStr

\* C5: when the first message start() receives is "error", start() signals the
\* worker if it is alive, sets last_error to the cleaned text (Boom for
\* Boom\nTraceback...\nFile ..., the default for no text), clears the run state
\* and returns failure.
C5_StartErrorMessage ==
    [][(StartGotMessage /\ Get(Head(statusChan[start_q]), "status") = "error")
        => /\ last'.op = "start" /\ last'.ret = FALSE
           /\ IdleNext /\ status_q' = NoQ /\ logs_q' = NoQ
           /\ last_error' = Shown(Get(Head(statusChan[start_q]), "message"), DefaultStartError)
           /\ alive[start_q] => sigterm'[start_q]
           /\ pc' = "idle"]_vars

\* start() has failed on an immediate Boom-with-traceback from a live worker
C5_Witness ==
    /\ pc = "idle" /\ last.op = "start" /\ ~last.ret /\ last.got = {"error"} /\ last.live
    /\ Idle /\ last_error = Boom /\ sigterm[1]

\* C6: when the first message start() receives is "finished", start() records the
\* finished-immediately error, clears the run state and returns failure; the run
\* is never Running.
C6_StartFinishedMessage ==
    [][(StartGotMessage /\ Get(Head(statusChan[start_q]), "status") = "finished")
        => /\ last'.op = "start" /\ last'.ret = FALSE
           /\ IdleNext /\ status_q' = NoQ /\ logs_q' = NoQ
           /\ last_error' = FinishedImmediately
           /\ pc' = "idle"]_vars

\* start() has failed on an immediate "finished"
C6_Witness ==
    /\ pc = "idle" /\ last.op = "start" /\ ~last.ret /\ last.got = {"finished"}
    /\ Idle /\ last_error = FinishedImmediately

\* C7: when the wait of start() times out with no message and the worker is alive,
\* start() returns success with handle, started_at and current_params set and
\* last_error None; a running query on a live handle answers true and changes
\* nothing.
C7_StartTimeoutAlive ==
    [][/\ (StartTimeout /\ alive[start_q])
            => /\ last'.op = "start" /\ last'.ret = TRUE
               /\ proc' = start_q /\ started_at' /= NoTime /\ current_params' /= NoParams
               /\ status_q' = start_q
               /\ last_error' = NoneStr
               /\ pc' = "idle"
       /\ (RunningQuery /\ IsLive(Self, OS))
            => /\ last'.op = "running" /\ last'.ret = TRUE
               /\ UNCHANGED ctlVars]_vars

\* after a start() that timed out on a live worker, running has answered true
C7_Witness ==
    /\ pc = "idle" /\ last.op = "running" /\ last.ret /\ last.got = {}
    /\ IsLive(Self, OS) /\ started_at /= NoTime /\ current_params /= NoParams
    /\ last_error = NoneStr /\ statusChan[proc] = <<>> /\ wpc[proc] = "boot"

\* C8: when the wait of start() times out and the worker has died without a
\* message, start() returns failure, the controller is idle and last_error carries
\* the exit code of the dead process.
C8_StartTimeoutDeadExitCode ==
    [][(StartTimeout /\ ~alive[start_q])
        => /\ last'.op = "start" /\ last'.ret = FALSE
           /\ proc' = NoProc /\ started_at' = NoTime
           /\ last_error' = ExitedMessage(exitcode[start_q])]_vars

\* C9: a refresh() that takes an "error" message signals the worker if it is alive,
\* sets last_error to the cleaned text of the last error it took, and leaves the
\* controller idle, whether or not the worker had exited.
C9_RefreshError ==
    [][(Refresh /\ "error" \in Statuses(Queued))
        => /\ IdleNext /\ status_q' = NoQ /\ logs_q' = NoQ
           /\ last_error' = Shown(LastErrorText(Queued), DefaultRunError)
           /\ IsLive(Self, OS) => sigterm'[proc]]_vars

\* refresh() has taken a Boom-with-traceback from a live worker
C9_Witness ==
    /\ pc = "idle" /\ last.op = "refresh" /\ "error" \in last.got /\ last.live
    /\ Idle /\ last_error = Boom /\ sigterm[1]

\* C10 as claimed: a refresh() that takes "finished" (and no error) clears the run
\* state when the worker has exited and keeps the handle when it is still alive.
C10_FinishedWhileAliveDeferred ==
    [][(Refresh /\ Statuses(Queued) = {"finished"})
        => IF IsLive(Self, OS) THEN proc' = proc ELSE IdleNext]_vars

\* C10 amended: a refresh() that takes "finished" leaves the controller idle in
\* that same call, whether or not the worker has exited; a worker that is still
\* alive is signalled first (terminate, bounded join) and last_error is untouched.
C10_RefreshFinished ==
    [][(Refresh /\ Statuses(Queued) = {"finished"})
        => /\ IdleNext /\ status_q' = NoQ /\ logs_q' = NoQ
           /\ last_error' = last_error
           /\ IsLive(Self, OS) => sigterm'[proc]]_vars

\* refresh() has taken "finished" from a live worker
C10_Witness ==
    /\ pc = "idle" /\ last.op = "refresh" /\ last.got = {"finished"} /\ last.live
    /\ Idle /\ sigterm[1]

\* C11: the running query answers true only for a handle whose process is alive,
\* and then changes nothing; when it answers false the handle, started_at,
\* current_params and both channel references are cleared; on a dead process with
\* uncleared state it takes the queued messages, leaves the cleaned text of the
\* last queued error in last_error (last_error as it was when none is queued) and
\* ends in the fields refresh() would have left.
C11_RunningConsistent ==
    [][RunningQuery
        => /\ last'.op = "running" /\ last'.ret = IsLive(Self, OS)
           /\ last'.ret => UNCHANGED ctlVars
           /\ ~last'.ret => IdleNext /\ status_q' = NoQ /\ logs_q' = NoQ
           /\ (proc /= NoProc /\ ~alive[proc])
                => /\ statusChan'[proc] = <<>>
                   /\ last_error' = IF "error" \in Statuses(Queued)
                                     THEN Shown(LastErrorText(Queued), DefaultRunError)
                                     ELSE last_error
                   /\ \A dies \in BOOLEAN :
                        RefreshResult(Self, OS, statusChan, dies).c
                          = [proc |-> proc', started_at |-> started_at',
                             last_error |-> last_error', status_q |-> status_q',
                             logs_q |-> logs_q', current_params |-> current_params']]_vars

\* the running query was the first to see a dead worker that had queued a
\* Boom-with-traceback: it answered false, the run is cleared, the text is there
C11_Witness ==
    /\ pc = "idle" /\ last.op = "running" /\ ~last.ret /\ ~last.live
    /\ "error" \in last.got /\ Idle /\ status_q = NoQ /\ last_error = Boom

\* C12: stop() on a controller whose worker is alive sends the terminate signal,
\* waits with a bounded join, clears the run state and returns success, whether or
\* not the process has exited when the join returns; last_error is untouched.
C12_StopRunning ==
    [][(Stop /\ IsLive(Self, OS))
        => /\ last'.op = "stop" /\ last'.ret = TRUE
           /\ sigterm'[proc]
           /\ IdleNext /\ status_q' = NoQ /\ logs_q' = NoQ
           /\ last_error' = last_error]_vars

\* stop() has returned success and the controller is idle while the signalled
\* process has not exited
C12_Witness ==
    /\ pc = "idle" /\ last.op = "stop" /\ last.ret /\ last.live
    /\ Idle /\ status_q = NoQ /\ logs_q = NoQ
    /\ \E p \in Procs : alive[p] /\ sigterm[p]

\* C13: stop() with no handle returns failure and changes nothing, each time it is
\* called: handle, started_at, current_params, last_error, channels, log buffer,
\* subscribers, pending deliveries and processes are as before.
C13_StopIdleNoop ==
    [][(Stop /\ proc = NoProc)
        => /\ last'.op = "stop" /\ last'.ret = FALSE
           /\ UNCHANGED <<ctlVars, pumpVars, logVars, osVars, workerVars, statusChan, logChan,
                          nspawned, pc, start_q>>]_vars

\* stop() has returned failure on an idle controller that keeps an error, buffered
\* lines and a subscriber
C13_Witness ==
    /\ pc = "idle" /\ last.op = "stop" /\ ~last.ret /\ Idle
    /\ last_error /= NoneStr /\ log_buffer /= <<>> /\ listeners /= <<>>

\* C14: the log buffer holds the last min(N, 500) of the N lines appended so far,
\* in the order they were appended, and so never more than 500; after 501 lines
\* it holds the 2nd to the 501st.
C14_BufferIsLastLines ==
    /\ Len(log_buffer) = (IF nappended < 500 THEN nappended ELSE 500)
    /\ \A k \in 1..Len(log_buffer) : log_buffer[k] = <<1, nappended - Len(log_buffer) + k>>

\* 501 lines were appended and the first one is gone
C14_Witness ==
    /\ nappended = 501 /\ Len(log_buffer) = 500
    /\ log_buffer[1] = <<1, 2>> /\ log_buffer[500] = <<1, 501>>

\* C15: a delivery to a subscriber whose queue holds 1000 lines drops that line
\* for that subscriber and nothing else: no other queue and no buffered line is
\* touched and the loop goes on with the next delivery; a delivery to a registered
\* subscriber with room enqueues the line; every appended line enters the ring
\* buffer and is scheduled for every registered subscriber; the pump can always
\* append the line it read, whatever the subscribers' queues hold.
C15_FullSubscriberIsolated ==
    /\ [][/\ (LoopRun /\ Len(sub_q[Head(loop_calls).q]) = 1000)
                => /\ sub_q' = sub_q
                   /\ loop_calls' = Tail(loop_calls)
                   /\ UNCHANGED <<log_buffer, listeners, log_thread>>
          /\ (LoopRun /\ Head(loop_calls).q \in Registered(listeners)
                      /\ Len(sub_q[Head(loop_calls).q]) < 1000)
                => sub_q' = [sub_q EXCEPT ![Head(loop_calls).q] =
                                Append(@, Head(loop_calls).line)]
          /\ PumpRead
                => /\ log_buffer'[Len(log_buffer')] = Head(logChan[pump_q])
                   /\ sub_q' = sub_q
                   /\ \A i \in 1..Len(listeners) :
                        loop_calls'[Len(loop_calls) + i]
                          = [q |-> listeners[i], line |-> Head(logChan[pump_q])]]_vars
    /\ []((log_thread = "loop" /\ logChan[pump_q] /= <<>>) => ENABLED PumpRead)

\* a line was dropped for the first subscriber, whose queue is full, and is the
\* newest line of the ring buffer and of the second subscriber's queue
C15_Witness ==
    /\ loop_calls = <<>> /\ listeners = <<1, 2>>
    /\ Len(sub_q[1]) = 1000 /\ sub_q[2] /= <<>> /\ log_buffer /= <<>>
    /\ sub_q[2][Len(sub_q[2])] = log_buffer[Len(log_buffer)]
    /\ sub_q[1][1000] /= log_buffer[Len(log_buffer)]

\* a line of whitespace only
IsBlank(l) == \A i \in 1..Len(l) : l[i] = SP

\* a diagnostic marker line: Traceback or File " after leading whitespace
IsDiagnostic(l) ==
    \E k \in 1..Len(l) : l[k] \in {TB, FQ} /\ \A j \in 1..(k - 1) : l[j] = SP

\* the lines of a message that precede its first diagnostic marker line
Preceding(lines) ==
    LET ms == {i \in 1..Len(lines) : IsDiagnostic(lines[i])} IN
    IF ms = {} THEN lines
    ELSE SubSeq(lines, 1, (CHOOSE i \in ms : \A j \in ms : i <= j) - 1)

\* a text trimmed: without the whitespace and the line breaks at its two ends
Trimmed(lines) ==
    LET idx == {i \in 1..Len(lines) : ~IsBlank(lines[i])} IN
    IF idx = {} THEN EmptyStr
    ELSE LET lo == CHOOSE i \in idx : \A j \in idx : i <= j
             hi == CHOOSE i \in idx : \A j \in idx : j <= i
             from(l) == CHOOSE k \in 1..Len(l) : l[k] /= SP /\ \A j \in 1..(k - 1) : l[j] = SP
             upto(l) == CHOOSE k \in 1..Len(l) : l[k] /= SP /\ \A j \in (k + 1)..Len(l) : l[j] = SP
         IN  [i \in 1..(hi - lo + 1) |->
                 SubSeq(lines[lo + i - 1],
                        IF i = 1 THEN from(lines[lo]) ELSE 1,
                        IF i = hi - lo + 1 THEN upto(lines[hi]) ELSE Len(lines[lo + i - 1]))]

\* C16 as claimed: for every raw message the cleaner returns the lines preceding the
\* first diagnostic marker line, trimmed (trailing blank lines removed); for a
\* message without a marker line that is the message itself, trimmed.
C16_CleanedIsTextBeforeMarker ==
    cleaned /= NoneStr => cleaned = Trimmed(Preceding(error_msg))

\* C16 amended: the cleaner returns the lines preceding the first diagnostic
\* marker line, trimmed, when that text is not empty (for a message without a
\* marker line: the message itself, trimmed), and the generic fallback text when
\* nothing remains, as for an all-blank message or one whose first non-blank line
\* is a marker line.
C16_CleanedOrFallback ==
    cleaned /= NoneStr
        => cleaned = IF Trimmed(Preceding(error_msg)) = EmptyStr THEN FallbackError
                     ELSE Trimmed(Preceding(error_msg))

\* a padded Boom, a blank line and an indented marker line with trailing lines
\* came out as Boom
C16_Witness ==
    /\ error_msg = << <<SP, "Boom", SP>>, <<SP>>, <<SP, FQ, "...">> >>
    /\ cleaned = Boom

\* C17: last_error is never an empty or all-blank text: it is None or it has a
\* line that is not blank, whatever message the worker reported.
C17_LastErrorNotBlank ==
    last_error = NoneStr \/ \E i \in 1..Len(last_error) : ~IsBlank(last_error[i])

\* refresh() took an error whose message cleaned to nothing and recorded the
\* fallback text
C17_Witness ==
    /\ last.op = "refresh" /\ "error" \in last.got /\ Idle
    /\ last_error = FallbackError

\* C18: every response of status() is consistent: with running true its pid is
\* the process id of the worker, a positive integer and never None, and with
\* running false its pid is None.
C18_StatusConsistent ==
    (pc = "idle" /\ last.op = "status")
        => /\ response.running => (response.pid /= NoProc /\ response.pid > 0)
           /\ ~response.running => response.pid = NoProc

\* C19: no controller call ends in an exception: every status(), stop() and
\* running query returns to its caller.
C19_NoThrownError == raised = NoError

\* C20: when refresh() or the running query is the first to see a worker that
\* exited without any status message, the controller goes idle and last_error
\* becomes a text that carries the exit code of the process.
C20_SilentExitRecorded ==
    [][((Refresh \/ RunningQuery) /\ proc /= NoProc /\ ~alive[proc] /\ Queued = <<>>)
        => /\ IdleNext
           /\ last_error' /= NoneStr
           /\ \E i \in 1..Len(last_error') : \E j \in 1..Len(last_error'[i]) :
                 last_error'[i][j] = exitcode[proc]]_vars

\* C21 as claimed: refresh() and the running query return with nothing queued,
\* whatever the worker does, and on no path do they signal or join the worker
\* process.
C21_NeverJoinsWorker ==
    /\ [](pc = "idle" /\ Queued = <<>> => (ENABLED Refresh /\ ENABLED RunningQuery))
    /\ [][(Refresh \/ RunningQuery) => (alive' = alive /\ sigterm' = sigterm)]_vars

\* C21 amended: refresh() and the running query never wait for a status message:
\* with nothing queued they return, whatever the worker does, and refresh() has
\* taken all that was queued when it returns; the running query never signals or
\* joins the worker; refresh() joins the worker only after it took "error" or
\* "finished" from a worker that is alive, after sending it the terminate signal,
\* and returns whether or not the process has exited when the bounded join ends.
C21_PollsWithoutWaiting ==
    /\ [](pc = "idle" /\ Queued = <<>> => (ENABLED Refresh /\ ENABLED RunningQuery))
    /\ [][Refresh => Content(statusChan', status_q) = <<>>]_vars
    /\ [][RunningQuery => (alive' = alive /\ sigterm' = sigterm)]_vars
    /\ [][(Refresh /\ (alive' /= alive \/ sigterm' /= sigterm))
            => /\ IsLive(Self, OS)
               /\ Statuses(Queued) \cap {"error", "finished"} /= {}
               /\ sigterm'[proc]
               /\ \A p \in Procs \ {proc} : alive'[p] = alive[p] /\ sigterm'[p] = sigterm[p]]_vars

\* refresh() took an error from a live worker, signalled it and returned while the
\* process had not exited
C21_Witness ==
    /\ pc = "idle" /\ last.op = "refresh" /\ "error" \in last.got /\ last.live
    /\ Idle /\ alive[1] /\ sigterm[1] /\ nspawned = 1

\* C22: while a started run is active (start() has returned, the handle is set and
\* its worker is alive) a pump thread is reading that run's log channel, so that
\* the lines its worker writes reach the ring buffer: the pump thread is about to
\* take the run's channel or is in its read loop on it, also for a start() issued
\* right after the stop() of a run whose pump thread has not exited.
C22_PumpReadsRunChannel ==
    (pc = "idle" /\ IsLive(Self, OS))
        => \/ log_thread = "init" /\ logs_q = proc
           \/ log_thread = "loop" /\ pump_q = proc

\* C23: the pump ends itself.  Reading the None sentinel ends its loop at once,
\* without appending anything; with no sentinel, a pump that is alive while no
\* run is active ends (after its reads timed out) unless a run becomes active
\* again; stop() does not touch the pump thread; and the pump leaves its read
\* loop only on a sentinel or when it finds no run active.
C23_PumpEndsItself ==
    /\ [][(PumpRead /\ Head(logChan[pump_q]) = NoneLine)
            => (log_thread' = "final" /\ UNCHANGED <<log_buffer, loop_calls>>)]_vars
    /\ [][PumpFinalize => log_thread' = "dead"]_vars
    /\ (log_thread /= "dead" /\ ~IsLive(Self, OS)) ~> (log_thread = "dead" \/ IsLive(Self, OS))
    /\ [][Stop => UNCHANGED <<log_thread, pump_q>>]_vars
    /\ [][(log_thread = "loop" /\ log_thread' /= "loop")
            => \/ ~IsLive(Self, OS) /\ logChan[pump_q] = <<>>
               \/ logChan[pump_q] /= <<>> /\ Head(logChan[pump_q]) = NoneLine]_vars

\* after a stop() with no sentinel on any queue the pump thread has appended
\* every line the worker wrote and has ended
C23_Witness ==
    /\ pc = "idle" /\ last.op = "stop" /\ last.ret /\ Idle
    /\ log_thread = "dead" /\ nspawned = 1 /\ nlogs[1] = MaxPumpLines
    /\ nappended = MaxPumpLines /\ logChan[1] = <<>>

\* a step of the pump thread
PumpThreadStep == PumpInit \/ PumpRead \/ PumpTimeout \/ PumpFinalize

\* C24: every piece of shared state has one writer context: only the pump thread
\* appends a line to the ring buffer and schedules it for the subscribers, and no
\* step of the pump thread changes the handle, started_at, current_params or
\* last_error.
C24_SingleWriterContext ==
    [][/\ (log_buffer' /= log_buffer \/ loop_calls' /= loop_calls) => (PumpRead \/ LoopRun)
       /\ PumpThreadStep => UNCHANGED <<proc, started_at, current_params, last_error>>]_vars

RECURSIVE PendingFor(_, _)
\* the lines of the scheduled deliveries calls that are for the queue s, in order
PendingFor(calls, s) ==
    IF calls = <<>> THEN <<>>
    ELSE (IF Head(calls).q = s THEN <<Head(calls).line>> ELSE <<>>) \o PendingFor(Tail(calls), s)

\* C25: a subscriber that registered before any line was appended, stays
\* registered, reads nothing and has room gets every line exactly once and in
\* the order the lines were appended: whenever no _append_log is under way, the
\* lines in its queue followed by those scheduled for it are the lines of the
\* ring buffer, in the buffer's order, whatever other subscribers did meanwhile.
C25_DeliveredInAppendOrder ==
    (pc = "idle" /\ log_thread /= "broadcast" /\ 1 \in Registered(listeners))
        => sub_q[1] \o PendingFor(loop_calls, 1) = log_buffer

\* the last element of a non-empty sequence
Last(seq) == seq[Len(seq)]

C27_OneStartSpawns ==
    /\ [][(\E params \in Params : StartSpawn(params)) => pc2 /= "wait"]_vars
    /\ [][(\E params \in Params : Start2Spawn(params)) => pc /= "start_wait"]_vars
    /\ [](~(pc = "start_wait" /\ pc2 = "wait"))

\* C28: a recoverable failure, reported through log_error with exit_on_error=False
\* by a worker that stays in main, does not make refresh() terminate the worker or
\* move the controller to Idle
C28_RecoverableKeepsRun ==
    [][(Refresh /\ IsLive(Self, OS) /\ wpc[proc] = "main" /\ Queued /= <<>>)
          => (proc' = proc /\ ~sigterm'[proc] /\ alive'[proc])]_vars

\* C29: an "error" message queued for the controller is never lost: whichever
\* operation drops the handle of the run while such a message is queued leaves
\* last_error non-empty
C29_QueuedErrorKept ==
    [][(proc /= NoProc /\ proc' = NoProc /\ "error" \in Statuses(Queued))
          => last_error' /= NoneStr]_vars

\* C30: polling does not disturb a healthy run: with the worker alive and nothing
\* queued for the controller, refresh() and the running query leave the handle,
\* started_at, current_params, last_error, both queue references, the log buffer,
\* the listeners and the worker as they are, and running answers true
C30_PollingLeavesHealthyRun ==
    [][((Refresh \/ RunningQuery) /\ IsLive(Self, OS) /\ Queued = <<>>)
          => /\ UNCHANGED <<proc, started_at, current_params, last_error, status_q, logs_q>>
             /\ UNCHANGED <<log_buffer, listeners, alive, sigterm>>
             /\ proc' /= NoProc /\ alive'[proc']
             /\ (last'.op = "running" => last'.ret)]_vars

\* refresh() and then the running query have polled a live run whose line is in
\* the buffer and which a client listens to
C30_Witness ==
    /\ pc = "idle" /\ last.op = "running" /\ last.ret /\ last.got = {}
    /\ proc = 1 /\ alive[1] /\ started_at = 1 /\ Queued = <<>>
    /\ log_buffer /= <<>> /\ listeners /= <<>>

====
